---- MODULE Spec2Model ----
(***************************************************************************)
(* A model of the text-indexing and retrieval engine of src/app.py:        *)
(* preprocess_text, simple_stem, build_index, search_documents, stats and  *)
(* clear_index, over the two process-wide globals inverted_index and       *)
(* document_store.  Text is modelled by TLA+ strings; a character is a     *)
(* string of length one.                                                   *)
(***************************************************************************)
EXTENDS Integers, Sequences, FiniteSets, TLC

VARIABLES
    inverted_index,   \* term -> sequence of occurrence records (app.py:17)
    document_store,   \* insertion-ordered dict doc_id -> metadata (app.py:18)
    response,         \* what the last completed request returned
    uploads,          \* the (doc_id, content) pairs indexed since the last clear
    discarded,        \* the uploads the last clear threw away, until the next upload
    bld,              \* per upload thread: position inside build_index
    clr,              \* position of the thread inside clear_index
    word,             \* stemmer development: the word under study
    stems             \* stemmer development: its successive stems

vars == <<inverted_index, document_store, response, uploads, discarded,
          bld, clr, word, stems>>

----------------------------------------------------------------------------
(* Characters and Python's string primitives                               *)

Char(s, i) == SubSeq(s, i, i)

CharSet(s) == {Char(s, i) : i \in 1..Len(s)}

Min(a, b) == IF a < b THEN a ELSE b

ascii_lowercase == "abcdefghijklmnopqrstuvwxyz"

ascii_uppercase == "ABCDEFGHIJKLMNOPQRSTUVWXYZ"

digits == "0123456789"

\* string.punctuation, but for the grave accent (code 96), which a TLA+ string
\* cannot hold; no text of this development contains it
punctuation == "!\"#$%&'()*+,-./:;<=>?@[\\]^_{|}~"

\* the characters str.split() and str.strip() treat as white space
whitespace == " \t\n\r\f"

PunctuationSet == CharSet(punctuation)

WhitespaceSet == CharSet(whitespace)

\* ord(char) < 128: the printable ASCII characters and white space; every
\* other character of a text is one with ord(char) >= 128
AsciiSet ==
    CharSet(ascii_lowercase) \cup CharSet(ascii_uppercase) \cup CharSet(digits)
        \cup PunctuationSet \cup WhitespaceSet

\* str.lower() on one character
LowerMap ==
    [c \in CharSet(ascii_uppercase) |->
        Char(ascii_lowercase,
             CHOOSE i \in 1..Len(ascii_uppercase) : Char(ascii_uppercase, i) = c)]

LowerChar(c) == IF c \in DOMAIN LowerMap THEN LowerMap[c] ELSE c

RECURSIVE MapChars(_, _, _, _)
\* the characters F(c) for c in text[lo..hi], joined
MapChars(F(_), text, lo, hi) ==
    IF lo > hi THEN ""
    ELSE IF lo = hi THEN F(Char(text, lo))
    ELSE LET mid == (lo + hi) \div 2
         IN  MapChars(F, text, lo, mid) \o MapChars(F, text, mid + 1, hi)

lower(text) == MapChars(LowerChar, text, 1, Len(text))

KeepAscii(c) == IF c \in AsciiSet THEN c ELSE ""

PunctToSpace(c) == IF c \in PunctuationSet THEN " " ELSE c

\* the members of a finite set of integers, in increasing order
Ascending(S) ==
    [k \in 1..Cardinality(S) |->
        CHOOSE x \in S : Cardinality({y \in S : y < x}) = k - 1]

\* the pieces of text that start at starts[k] and end at ends[k]
Pieces(text, starts, ends) ==
    [k \in 1..Len(starts) |-> SubSeq(text, starts[k], ends[k])]

InWord(text, i) == i >= 1 /\ i <= Len(text) /\ Char(text, i) \notin WhitespaceSet

\* str.split(): the maximal runs of non-white-space characters, in order
split(text) ==
    Pieces(text,
           Ascending({i \in 1..Len(text) : InWord(text, i) /\ ~InWord(text, i - 1)}),
           Ascending({i \in 1..Len(text) : InWord(text, i) /\ ~InWord(text, i + 1)}))

\* the pieces of text between the line breaks at the positions breaks
BetweenBreaks(text, breaks) ==
    [k \in 1..(Len(breaks) + 1) |->
        SubSeq(text, IF k = 1 THEN 1 ELSE breaks[k - 1] + 1,
                     IF k > Len(breaks) THEN Len(text) ELSE breaks[k] - 1)]

\* str.split('\n'): every newline ends a piece, empty pieces are kept
split_lines(text) ==
    BetweenBreaks(text, Ascending({i \in 1..Len(text) : Char(text, i) = "\n"}))

\* text from its first to its last character at the positions ink
Between(text, ink) ==
    IF ink = {} THEN ""
    ELSE SubSeq(text, CHOOSE i \in ink : \A j \in ink : i <= j,
                      CHOOSE i \in ink : \A j \in ink : i >= j)

\* str.strip()
strip(text) == Between(text, {i \in 1..Len(text) : Char(text, i) \notin WhitespaceSet})

\* the length kept of an occurrence's original line (app.py:83)
LineLimit == 200

\* the number of lines a result entry lists (app.py:139)
MaxResultLines == 20

truncate(text, n) == SubSeq(text, 1, Min(n, Len(text)))

STOP_WORDS ==
    {"the", "be", "to", "of", "and", "a", "in", "that", "have", "i",
     "it", "for", "not", "on", "with", "he", "as", "you", "do", "at",
     "this", "but", "his", "by", "from", "they", "we", "say", "her", "she",
     "or", "an", "will", "my", "one", "all", "would", "there", "their",
     "what", "so", "up", "out", "if", "about", "who", "get", "which", "go", "me"}

\* the minimum length filter of preprocess_text: len(word) > 2
MinWordLen == 2

KeepWord(w) == w \notin STOP_WORDS /\ Len(w) > MinWordLen

\* line 35
keep_ascii(text) == MapChars(KeepAscii, text, 1, Len(text))

\* line 38
punct_to_space(text) == MapChars(PunctToSpace, text, 1, Len(text))

preprocess_text(text) ==
    SelectSeq(split(punct_to_space(keep_ascii(lower(text)))), KeepWord)

suffixes == <<"ing", "ed", "es", "s", "ly", "tion", "ness", "ment">>

endswith(w, suffix) ==
    Len(w) >= Len(suffix) /\ SubSeq(w, Len(w) - Len(suffix) + 1, Len(w)) = suffix

\* the margin of simple_stem: len(word) > len(suffix) + 2
StemMargin == 2

\* a variant without the margin
StrippableAnyLength(w, suffix) == endswith(w, suffix) /\ Len(w) > Len(suffix)

Strippable(w, suffix) == endswith(w, suffix) /\ Len(w) > Len(suffix) + StemMargin

RECURSIVE StemFrom(_, _)
\* the loop of lines 51-54, from the k-th suffix on
StemFrom(w, k) ==
    IF k > Len(suffixes) THEN w
    ELSE IF Strippable(w, suffixes[k]) THEN SubSeq(w, 1, Len(w) - Len(suffixes[k]))
    ELSE StemFrom(w, k + 1)

simple_stem(w) == StemFrom(w, 1)

----------------------------------------------------------------------------
(* Python dicts keep insertion order: a dict is a sequence of              *)
(* [key, val] entries with distinct keys.                                  *)

DictKeys(d) == {d[i].key : i \in DOMAIN d}

DictHas(d, k) == k \in DictKeys(d)

DictGet(d, k) == d[CHOOSE i \in DOMAIN d : d[i].key = k].val

\* d[k] = v: an existing key keeps its place
DictSet(d, k, v) ==
    IF DictHas(d, k)
    THEN [i \in DOMAIN d |-> IF d[i].key = k THEN [key |-> k, val |-> v] ELSE d[i]]
    ELSE Append(d, [key |-> k, val |-> v])

\* the places of a sequence where a key shows up for the first time, in
\* order: the order in which a dict filled by a loop over it gets its keys
FirstPlaces(keys) ==
    Ascending({i \in 1..Len(keys) : \A j \in 1..(i - 1) : keys[j] # keys[i]})

----------------------------------------------------------------------------
(* build_index                                                             *)

\* inverted_index = defaultdict(list), with no key yet
EmptyIndex == [t \in {} |-> <<>>]

\* document_store = {}
EmptyStore == <<>>

\* inverted_index[stemmed].append(occ): the key is created on first use
IndexAppend(idx, term, occ) ==
    IF term \in DOMAIN idx
    THEN [idx EXCEPT ![term] = Append(@, occ)]
    ELSE [t \in DOMAIN idx \cup {term} |-> IF t = term THEN <<occ>> ELSE idx[t]]

\* lines 74-84: one append per kept word of the line
WordPostings(doc_id, line_num, words, original_line) ==
    [p \in 1..Len(words) |->
        [term |-> simple_stem(words[p]),
         occ  |-> [doc_id        |-> doc_id,
                   line          |-> line_num,
                   position      |-> p - 1,
                   original_line |-> original_line]]]

\* lines 69-84: the appends one line causes, in order
LinePostings(doc_id, line_num, line) ==
    IF strip(line) = "" THEN <<>>
    ELSE WordPostings(doc_id, line_num, preprocess_text(line),
                      truncate(strip(line), LineLimit))

RECURSIVE Flatten(_, _, _)
\* seqs[lo] \o ... \o seqs[hi]
Flatten(seqs, lo, hi) ==
    IF lo > hi THEN <<>>
    ELSE IF lo = hi THEN seqs[lo]
    ELSE Flatten(seqs, lo, (lo + hi) \div 2) \o Flatten(seqs, (lo + hi) \div 2 + 1, hi)

\* a variant that gives blank lines no number: a line is numbered among
\* the non-blank lines only
LinesPostingsDense(doc_id, lines) ==
    Flatten([n \in 1..Len(lines) |->
                LinePostings(doc_id,
                             Cardinality({m \in 1..n : strip(lines[m]) # ""}),
                             lines[n])],
            1, Len(lines))

\* lines 68-84 over the lines of the document
LinesPostings(doc_id, lines) ==
    Flatten([n \in 1..Len(lines) |-> LinePostings(doc_id, n, lines[n])], 1, Len(lines))

\* every append of build_index(doc_id, content, _), in execution order
Postings(doc_id, content) == LinesPostings(doc_id, split_lines(content))

\* document_store[doc_id] = {...}; indexed_at, a time stamp no operation
\* reads, is left out
StoreMeta(store, doc_id, content, doc_name) ==
    DictSet(store, doc_id,
            [name  |-> doc_name,
             size  |-> Len(content),
             lines |-> Len(split_lines(content))])

\* the occurrences among posts that go under term, in order
OccsUnder(posts, term) ==
    [i \in 1..Len(SelectSeq(posts, LAMBDA q : q.term = term)) |->
        SelectSeq(posts, LAMBDA q : q.term = term)[i].occ]

\* idx after IndexAppend of every entry of posts, in order
AppendPostings(idx, posts) ==
    [t \in DOMAIN idx \cup {posts[i].term : i \in 1..Len(posts)} |->
        (IF t \in DOMAIN idx THEN idx[t] ELSE <<>>) \o OccsUnder(posts, t)]

\* the whole of build_index, run without interruption
build_index(idx, store, doc_id, content, doc_name) ==
    [index |-> AppendPostings(idx, Postings(doc_id, content)),
     store |-> StoreMeta(store, doc_id, content, doc_name)]

----------------------------------------------------------------------------
(* search_documents                                                        *)

RECURSIVE MapStem(_, _)
MapStem(words, i) ==
    IF i > Len(words) THEN <<>> ELSE <<simple_stem(words[i])>> \o MapStem(words, i + 1)

\* a variant that forgets to stem the query
QueryWordsUnstemmed(query) == preprocess_text(query)

\* query_words after lines 89-90
QueryWords(query) == MapStem(preprocess_text(query), 1)

\* the dict a loop fills with d[KeyOf(x)].append(x) for x in items
GroupBy(items, keys, firsts) ==
    [n \in 1..Len(firsts) |->
        [key |-> keys[firsts[n]],
         val |-> SelectSeq(items, LAMBDA x : x.doc_id = keys[firsts[n]])]]

DocIdsOf(occs) == [i \in 1..Len(occs) |-> occs[i].doc_id]

\* lines 102-105: results[doc_id].append(occurrence), for each occurrence
GroupByDoc(occs) == GroupBy(occs, DocIdsOf(occs), FirstPlaces(DocIdsOf(occs)))

\* the occurrences the loops of lines 110-112 walk through, each with the
\* query word it is met under
WordScan(w, idx) ==
    IF w \in DOMAIN idx
    THEN [i \in 1..Len(idx[w]) |-> [word |-> w, doc_id |-> idx[w][i].doc_id,
                                    occ |-> idx[w][i]]]
    ELSE <<>>

QueryScan(query_words, idx) ==
    Flatten([k \in 1..Len(query_words) |-> WordScan(query_words[k], idx)],
            1, Len(query_words))

\* lines 113-115 for every step of the scan: per document, in the order the
\* documents are first met, its occurrences and the words it was met under
MatchDocs(scan, firsts) ==
    [n \in 1..Len(firsts) |->
        [key |-> scan[firsts[n]].doc_id,
         val |-> [occurrences |->
                      [i \in 1..Len(SelectSeq(scan, LAMBDA x : x.doc_id = scan[firsts[n]].doc_id)) |->
                          SelectSeq(scan, LAMBDA x : x.doc_id = scan[firsts[n]].doc_id)[i].occ],
                  word_count |->
                      {scan[i].word : i \in {j \in 1..Len(scan) :
                                                scan[j].doc_id = scan[firsts[n]].doc_id}}]]]

\* lines 108-115
MatchAll(query_words, idx) ==
    MatchDocs(QueryScan(query_words, idx),
              FirstPlaces(DocIdsOf(QueryScan(query_words, idx))))

\* line 120: the test a document must pass for a multi-word query
HasAllWords(data, query_words) == Cardinality(data.word_count) = Len(query_words)

RECURSIVE FilterMatches(_, _, _)
\* lines 118-121
FilterMatches(doc_matches, query_words, i) ==
    IF i > Len(doc_matches) THEN <<>>
    ELSE (IF HasAllWords(doc_matches[i].val, query_words)
          THEN <<[key |-> doc_matches[i].key, val |-> doc_matches[i].val.occurrences]>>
          ELSE <<>>)
         \o FilterMatches(doc_matches, query_words, i + 1)

\* lines 96-121: the dict results, doc_id -> occurrences, or <<>> on the
\* early return of line 100
CollectResults(query_words, idx) ==
    IF Len(query_words) = 1
    THEN IF query_words[1] \notin DOMAIN idx THEN <<>>
         ELSE GroupByDoc(idx[query_words[1]])
    ELSE FilterMatches(MatchAll(query_words, idx), query_words, 1)

LinesOf(occs) == [i \in 1..Len(occs) |-> occs[i].line]

FirstTexts(occs, firsts) ==
    [n \in 1..Len(firsts) |->
        [key |-> occs[firsts[n]].line, val |-> occs[firsts[n]].original_line]]

\* lines 127-131: the first text seen for each line number
UniqueLines(occs) == FirstTexts(occs, FirstPlaces(LinesOf(occs)))

\* a variant that leaves the items in dict order
unsorted_items(d) == d

\* sorted(unique_lines.items()): the keys are distinct line numbers, so the
\* items come out by ascending key
sorted_items(d) ==
    [n \in 1..Len(d) |->
        d[CHOOSE i \in 1..Len(d) :
              Cardinality({j \in 1..Len(d) : d[j].key < d[i].key}) = n - 1]]

\* line 139, the slice and the comprehension
FirstItems(items) ==
    [i \in 1..Min(MaxResultLines, Len(items)) |->
        [line_num |-> items[i].key, content |-> items[i].val]]

\* line 139
ResultLines(unique_lines) == FirstItems(sorted_items(unique_lines))

\* a variant that counts matching lines, not occurrences
MatchCountLines(occurrences) ==
    Cardinality({occurrences[i].line : i \in 1..Len(occurrences)})

\* line 137
MatchCount(occurrences) == Len(occurrences)

\* lines 127-140: one entry of formatted_results
FormatEntry(doc_id, occurrences, store) ==
    [document    |-> IF DictHas(store, doc_id) THEN DictGet(store, doc_id).name
                     ELSE doc_id,
     doc_id      |-> doc_id,
     matches     |-> MatchCount(occurrences),
     total_lines |-> IF DictHas(store, doc_id) THEN DictGet(store, doc_id).lines
                     ELSE 0,
     lines       |-> ResultLines(UniqueLines(occurrences))]

RECURSIVE InsertBeforeEqual(_, _)
\* a variant of the sort that is not stable: e goes before its equals
InsertBeforeEqual(sorted, e) ==
    IF sorted = <<>> THEN <<e>>
    ELSE IF e.matches >= Head(sorted).matches THEN <<e>> \o sorted
         ELSE <<Head(sorted)>> \o InsertBeforeEqual(Tail(sorted), e)

RECURSIVE InsertByMatches(_, _)
\* e goes behind every entry with at least as many matches
InsertByMatches(sorted, e) ==
    IF sorted = <<>> THEN <<e>>
    ELSE IF e.matches > Head(sorted).matches THEN <<e>> \o sorted
         ELSE <<Head(sorted)>> \o InsertByMatches(Tail(sorted), e)

RECURSIVE SortFrom(_, _)
SortFrom(entries, n) ==
    IF n = 0 THEN <<>> ELSE InsertByMatches(SortFrom(entries, n - 1), entries[n])

\* line 143: list.sort(key=matches, reverse=True), a stable sort
sort_by_matches(entries) == SortFrom(entries, Len(entries))

\* lines 124-140
FormatResults(results, store) ==
    [i \in 1..Len(results) |-> FormatEntry(results[i].key, results[i].val, store)]

\* lines 92-145
SearchWords(query_words, idx, store) ==
    IF query_words = <<>> THEN <<>>
    ELSE sort_by_matches(FormatResults(CollectResults(query_words, idx), store))

search_documents(query, idx, store) == SearchWords(QueryWords(query), idx, store)

\* a variant that subscripts the index with every query word, untested
SubscriptedWordsUnguarded(query_words, idx) ==
    {query_words[k] : k \in 1..Len(query_words)}

\* the words search_documents evaluates inverted_index[word] for: lines 103
\* and 112, each behind the membership test of line 99 or 111
SubscriptedWords(query_words, idx) ==
    {query_words[k] : k \in 1..Len(query_words)} \cap DOMAIN idx

\* inverted_index is a defaultdict(list): subscripting it with a missing
\* key stores an empty list under that key
IndexAfterReads(idx, words) ==
    [t \in DOMAIN idx \cup words |-> IF t \in DOMAIN idx THEN idx[t] ELSE <<>>]

\* the global index once search_documents(query) has returned
IndexAfterSearch(query, idx) ==
    IndexAfterReads(idx, SubscriptedWords(QueryWords(query), idx))

----------------------------------------------------------------------------
(* stats and clear_index                                                   *)

stats(idx, store) ==
    [total_documents    |-> Len(store),
     total_unique_words |-> Cardinality(DOMAIN idx),
     documents          |-> [i \in 1..Len(store) |-> store[i].val]]

\* a variant that forgets the metadata table
clear_index_only(idx, store) == [index |-> EmptyIndex, store |-> store]

\* lines 524-525
clear_index(idx, store) == [index |-> EmptyIndex, store |-> EmptyStore]

----------------------------------------------------------------------------
(* Bounds and inputs                                                       *)

\* index_document calls between two resets
MaxUploads == 2

\* concurrent upload requests
NumUploaders == 2

\* applications of simple_stem to one word
MaxStemCalls == 3

DocIds == {"doc1", "doc2"}

\* the display name an upload of doc_id carries
NameOf(doc_id) == IF doc_id = "doc1" THEN "a.txt" ELSE "b.txt"

RECURSIVE Repeat(_, _)
Repeat(text, n) == IF n = 0 THEN "" ELSE text \o Repeat(text, n - 1)

DocCloud == "Cloud computing is great.\nCloud storage saves money."

DocCloudOnly == "cloud"

\* two hits of a term on one line, a blank line, a stop word
DocMixed == "Storage clouds, cloud storage!\n \t\nThe meetings"

\* more matching lines than a result entry lists
DocLong == Repeat("Clouds\n", MaxResultLines + 1) \o "storage"

Contents == {DocCloud, DocCloudOnly, DocMixed, DocLong}

Queries ==
    {"cloud", "storage", "cloud storage", "Storage, CLOUD!", "cloud clouds",
     "meetings", "meeting", "money xyz", "the", ""}

----------------------------------------------------------------------------
(* The requests, each run to completion                                    *)

Idle == [pc |-> "idle"]

Uploaders == 1..NumUploaders

Init ==
    /\ inverted_index = EmptyIndex
    /\ document_store = EmptyStore
    /\ response = [op |-> "none"]
    /\ uploads = <<>>
    /\ discarded = <<>>
    /\ bld = [p \in Uploaders |-> Idle]
    /\ clr = "idle"
    /\ word = ""
    /\ stems = <<>>

\* upload, lines 491-499: build_index, then the reply
IndexDocument(doc_id, content) ==
    /\ Len(uploads) < MaxUploads
    /\ LET built == build_index(inverted_index, document_store,
                                doc_id, content, NameOf(doc_id))
       IN  /\ inverted_index' = built.index
           /\ document_store' = built.store
    /\ uploads' = Append(uploads, [doc_id |-> doc_id, content |-> content])
    /\ discarded' = <<>>
    /\ response' = [op |-> "upload", doc_id |-> doc_id]
    /\ UNCHANGED <<bld, clr, word, stems>>

\* search, lines 450-458
Search(query) ==
    /\ response' = [op |-> "search", query |-> query,
                    results |-> search_documents(query, inverted_index, document_store)]
    /\ inverted_index' = IndexAfterSearch(query, inverted_index)
    /\ UNCHANGED <<document_store, uploads, discarded, bld, clr, word, stems>>

\* stats, lines 505-518
Stats ==
    /\ response' = [op |-> "stats", stats |-> stats(inverted_index, document_store)]
    /\ UNCHANGED <<inverted_index, document_store, uploads, discarded, bld, clr,
                   word, stems>>

\* clear_index, lines 521-526
ClearIndex ==
    /\ LET cleared == clear_index(inverted_index, document_store)
       IN  /\ inverted_index' = cleared.index
           /\ document_store' = cleared.store
    /\ uploads' = <<>>
    /\ discarded' = IF uploads = <<>> THEN discarded ELSE uploads
    /\ response' = [op |-> "clear"]
    /\ UNCHANGED <<bld, clr, word, stems>>

Next ==
    \/ \E doc_id \in DocIds, content \in Contents : IndexDocument(doc_id, content)
    \/ \E query \in Queries : Search(query)
    \/ Stats
    \/ ClearIndex

Spec == Init /\ [][Next]_vars

----------------------------------------------------------------------------
(* The same requests served by the threads of app.run (line 543): nothing  *)
(* in app.py takes a lock, so a thread may be suspended between any two    *)
(* statements of build_index and of clear_index.  search and stats are     *)
(* taken in one step each, which only removes interleavings.               *)

\* concurrent uploads carry distinct file names, hence distinct doc ids
DocIdOf(p) == "doc" \o ToString(p)

DocPair == "Cloud storage"

ConcContents == {DocCloudOnly, DocPair}

ConcQueries == {"cloud", "cloud storage"}

\* lines 58-66: the metadata record is stored before the first append
BuildStart(p, content) ==
    /\ bld[p].pc = "idle"
    /\ document_store' =
           StoreMeta(document_store, DocIdOf(p), content, NameOf(DocIdOf(p)))
    /\ bld' = [bld EXCEPT ![p] = [pc |-> "loop", doc_id |-> DocIdOf(p),
                                  content |-> content, k |-> 0]]
    /\ UNCHANGED <<inverted_index, response, uploads, discarded, clr, word, stems>>

\* lines 79-84: one append, to the list the global names at that moment
BuildAppend(p) ==
    /\ bld[p].pc = "loop"
    /\ LET posts == Postings(bld[p].doc_id, bld[p].content)
       IN  /\ bld[p].k < Len(posts)
           /\ inverted_index' = IndexAppend(inverted_index, posts[bld[p].k + 1].term,
                                            posts[bld[p].k + 1].occ)
    /\ bld' = [bld EXCEPT ![p].k = @ + 1]
    /\ UNCHANGED <<document_store, response, uploads, discarded, clr, word, stems>>

\* the loops are over: build_index returns and upload replies
BuildReturn(p) ==
    /\ bld[p].pc = "loop"
    /\ bld[p].k = Len(Postings(bld[p].doc_id, bld[p].content))
    /\ bld' = [bld EXCEPT ![p] = [pc |-> "done", doc_id |-> bld[p].doc_id,
                                  content |-> bld[p].content]]
    /\ response' = [op |-> "upload", doc_id |-> bld[p].doc_id]
    /\ UNCHANGED <<inverted_index, document_store, uploads, discarded, clr,
                   word, stems>>

\* line 524
ClearResetIndex ==
    /\ clr = "idle"
    /\ inverted_index' = EmptyIndex
    /\ clr' = "index_reset"
    /\ UNCHANGED <<document_store, response, uploads, discarded, bld, word, stems>>

\* lines 525-526
ClearResetStore ==
    /\ clr = "index_reset"
    /\ document_store' = EmptyStore
    /\ clr' = "idle"
    /\ response' = [op |-> "clear"]
    /\ UNCHANGED <<inverted_index, uploads, discarded, bld, word, stems>>

NextConc ==
    \/ \E p \in Uploaders, content \in ConcContents : BuildStart(p, content)
    \/ \E p \in Uploaders : BuildAppend(p)
    \/ \E p \in Uploaders : BuildReturn(p)
    \/ ClearResetIndex
    \/ ClearResetStore
    \/ \E query \in ConcQueries : Search(query)
    \/ Stats

SpecConc == Init /\ [][NextConc]_vars

----------------------------------------------------------------------------
(* simple_stem on its own: normalized words, stemmed again and again       *)

Roots == {"a", "be", "cla", "bus", "meet", "comput", "happi"}

Endings == {suffixes[k] : k \in 1..Len(suffixes)} \cup {""}

\* the words preprocess_text passes on unchanged
StemWords ==
    {w \in {r \o e1 \o e2 : r \in Roots, e1 \in Endings, e2 \in Endings} :
        preprocess_text(w) = <<w>>}

InitStem ==
    /\ inverted_index = EmptyIndex
    /\ document_store = EmptyStore
    /\ response = [op |-> "none"]
    /\ uploads = <<>>
    /\ discarded = <<>>
    /\ bld = [p \in Uploaders |-> Idle]
    /\ clr = "idle"
    /\ word \in StemWords
    /\ stems = <<>>

\* stems[i] is simple_stem applied i times to word
Stem ==
    /\ Len(stems) < MaxStemCalls
    /\ stems' = Append(stems, simple_stem(IF stems = <<>> THEN word
                                          ELSE stems[Len(stems)]))
    /\ UNCHANGED <<inverted_index, document_store, response, uploads, discarded,
                   bld, clr, word>>

NextStem == Stem

SpecStem == InitStem /\ [][NextStem]_vars

----------------------------------------------------------------------------
(* What the claims speak of, stated without the code's own loops           *)

IsSearch == response.op = "search"

\* the distinct terms of a query
DistinctTerms(query) == {QueryWords(query)[i] : i \in 1..Len(QueryWords(query))}

\* where the occurrences of document d stand under term t
Hits(idx, t, d) ==
    IF t \in DOMAIN idx THEN {i \in DOMAIN idx[t] : idx[t][i].doc_id = d} ELSE {}

IndexedDocs(idx) == UNION {{idx[t][i].doc_id : i \in DOMAIN idx[t]} : t \in DOMAIN idx}

ResultDocs(results) == {results[i].doc_id : i \in 1..Len(results)}

EntryOf(results, d) == results[CHOOSE i \in 1..Len(results) : results[i].doc_id = d]

\* the normalized words of a text, line by line
WordsOf(content) ==
    LET lines == split_lines(content)
    IN  UNION {{preprocess_text(lines[n])[i] : i \in 1..Len(preprocess_text(lines[n]))} :
               n \in 1..Len(lines)}

ContentWords == [c \in Contents |-> WordsOf(c)]

\* the index and the metadata table after the uploads ups, from nothing
BuildOn(before, up) ==
    build_index(before.index, before.store, up.doc_id, up.content, NameOf(up.doc_id))

RECURSIVE BuiltFrom(_, _)
BuiltFrom(ups, n) ==
    IF n = 0 THEN [index |-> EmptyIndex, store |-> EmptyStore]
    ELSE BuildOn(BuiltFrom(ups, n - 1), ups[n])

----------------------------------------------------------------------------
(* C1: a search whose query has two or more terms returns exactly the      *)
(* documents that hold at least one occurrence of every distinct term of   *)
(* the query.                                                              *)
C1_AndSemantics ==
    (IsSearch /\ Len(QueryWords(response.query)) >= 2) =>
        ResultDocs(response.results) =
            {d \in IndexedDocs(inverted_index) :
                \A t \in DistinctTerms(response.query) : Hits(inverted_index, t, d) # {}}

(* C2: without a reset in between, a search for a single word finds every  *)
(* indexed document whose text holds that word, with a match count of at   *)
(* least 1.                                                                *)
C2_SingleTermRecall ==
    (IsSearch /\ Len(preprocess_text(response.query)) = 1) =>
        \A n \in 1..Len(uploads) :
            preprocess_text(response.query)[1] \in ContentWords[uploads[n].content] =>
                /\ uploads[n].doc_id \in ResultDocs(response.results)
                /\ EntryOf(response.results, uploads[n].doc_id).matches >= 1

\* a stemmed word is found in two documents
C2_Witness ==
    /\ IsSearch
    /\ Len(preprocess_text(response.query)) = 1
    /\ QueryWords(response.query) # preprocess_text(response.query)
    /\ Len(uploads) = 2
    /\ uploads[1].doc_id # uploads[2].doc_id
    /\ preprocess_text(response.query)[1] \in ContentWords[uploads[2].content]
    /\ Len(response.results) >= 1

(* C3: once a reset has thrown documents away and until the next upload,   *)
(* both tables are empty, stats reports zero documents and zero terms, and *)
(* every query returns the empty list.                                     *)
C3_ResetIsTotal ==
    discarded # <<>> =>
        /\ \A query \in Queries :
               search_documents(query, inverted_index, document_store) = <<>>
        /\ stats(inverted_index, document_store).total_documents = 0
        /\ stats(inverted_index, document_store).total_unique_words = 0
        /\ IsSearch => response.results = <<>>
        /\ response.op = "stats" =>
               /\ response.stats.total_documents = 0
               /\ response.stats.total_unique_words = 0
               /\ response.stats.documents = <<>>

\* a query that found the discarded documents finds nothing after the reset
C3_Witness ==
    /\ discarded # <<>>
    /\ IsSearch
    /\ response.results = <<>>
    /\ search_documents(response.query, BuiltFrom(discarded, Len(discarded)).index,
                        BuiltFrom(discarded, Len(discarded)).store) # <<>>

(* C6: from an empty index, after indexing doc1 with the two lines         *)
(* "Cloud computing is great." and "Cloud storage saves money.", the       *)
(* search for "cloud storage" returns one result, for doc1, with           *)
(* match_count 2.                                                          *)
EndToEndCase ==
    /\ uploads = <<[doc_id |-> "doc1", content |-> DocCloud]>>
    /\ IsSearch
    /\ response.query = "cloud storage"

C6_EndToEndTwoMatches ==
    EndToEndCase =>
        /\ Len(response.results) = 1
        /\ response.results[1].doc_id = "doc1"
        /\ response.results[1].matches = 2

\* the same, with the count the index holds: cloud twice, storage once
C6_EndToEndThreeMatches ==
    EndToEndCase =>
        response.results =
            <<[document    |-> "a.txt",
               doc_id      |-> "doc1",
               matches     |-> 3,
               total_lines |-> 2,
               lines       |-> <<[line_num |-> 1, content |-> "Cloud computing is great."],
                                 [line_num |-> 2, content |-> "Cloud storage saves money."]>>]>>

C6_Witness == EndToEndCase /\ Len(response.results) = 1

(* C7: the match count of a result entry is the number of occurrences the  *)
(* index stores for that document under the terms of the query, each       *)
(* counted, also when several stand on one line.                           *)
C7_RawMatchCount ==
    IsSearch =>
        \A n \in 1..Len(response.results) :
            response.results[n].matches =
                Cardinality(UNION {{<<t, i>> :
                                       i \in Hits(inverted_index, t, response.results[n].doc_id)} :
                                   t \in DistinctTerms(response.query)})

\* an entry with more matches than matching lines
C7_Witness ==
    /\ IsSearch
    /\ \E n \in 1..Len(response.results) :
           /\ response.results[n].matches > Len(response.results[n].lines)
           /\ Len(response.results[n].lines) < MaxResultLines
           /\ Cardinality(DistinctTerms(response.query)) = 2

\* the occurrences of document d in the order a search walks through them:
\* query word after query word, each list of the index front to back
ScanOf(query, d) ==
    SelectSeq(QueryScan(QueryWords(query), inverted_index), LAMBDA x : x.doc_id = d)

MatchingLines(query, d) == {ScanOf(query, d)[i].occ.line : i \in 1..Len(ScanOf(query, d))}

FirstSeenText(query, d, line) ==
    ScanOf(query, d)[CHOOSE i \in 1..Len(ScanOf(query, d)) :
                         /\ ScanOf(query, d)[i].occ.line = line
                         /\ \A j \in 1..(i - 1) : ScanOf(query, d)[j].occ.line # line
                    ].occ.original_line

LinesAggregated(query, entry) ==
    /\ Len(entry.lines) <= MaxResultLines
    /\ Len(entry.lines) <= entry.matches
    /\ Len(entry.lines) = Min(MaxResultLines, Cardinality(MatchingLines(query, entry.doc_id)))
    /\ \A i \in 1..Len(entry.lines) :
           /\ entry.lines[i].line_num \in MatchingLines(query, entry.doc_id)
           /\ entry.lines[i].content =
                  FirstSeenText(query, entry.doc_id, entry.lines[i].line_num)
           /\ \A j \in (i + 1)..Len(entry.lines) :
                  entry.lines[i].line_num < entry.lines[j].line_num
    /\ \A line \in MatchingLines(query, entry.doc_id) :
           (\A i \in 1..Len(entry.lines) : entry.lines[i].line_num # line) =>
               \A i \in 1..Len(entry.lines) : entry.lines[i].line_num < line

(* C8: the lines of a result entry are at most 20, each line number once,  *)
(* strictly ascending, the lowest matching line numbers of the document,   *)
(* each with the text of the first occurrence met on that line, and no     *)
(* more than the match count.                                              *)
C8_LineAggregation ==
    IsSearch =>
        \A n \in 1..Len(response.results) :
            LinesAggregated(response.query, response.results[n])

\* more than 20 matching lines, the first one met not being the lowest
C8_Witness ==
    /\ IsSearch
    /\ \E n \in 1..Len(response.results) :
           /\ Len(response.results[n].lines) = MaxResultLines
           /\ Cardinality(MatchingLines(response.query, response.results[n].doc_id))
                  > MaxResultLines
           /\ ScanOf(response.query, response.results[n].doc_id)[1].occ.line
                  > response.results[n].lines[MaxResultLines].line_num

\* the place in the scan where document d is met first
FirstMet(query, d) ==
    CHOOSE i \in 1..Len(QueryScan(QueryWords(query), inverted_index)) :
        /\ QueryScan(QueryWords(query), inverted_index)[i].doc_id = d
        /\ \A j \in 1..(i - 1) : QueryScan(QueryWords(query), inverted_index)[j].doc_id # d

(* C9: the results are ordered by match count, descending, hold one entry  *)
(* per document at most, and entries with equal match counts stand in the  *)
(* order in which their documents were first met while scanning the index. *)
C9_Ranking ==
    IsSearch =>
        \A i \in 1..Len(response.results) : \A j \in (i + 1)..Len(response.results) :
            /\ response.results[i].doc_id # response.results[j].doc_id
            /\ response.results[i].matches >= response.results[j].matches
            /\ response.results[i].matches = response.results[j].matches =>
                   FirstMet(response.query, response.results[i].doc_id)
                       < FirstMet(response.query, response.results[j].doc_id)

\* two documents with equal match counts
C9_Witness ==
    /\ IsSearch
    /\ Len(response.results) = 2
    /\ response.results[1].matches = response.results[2].matches
    /\ response.results[1].matches > 1

----------------------------------------------------------------------------
(* Concurrent requests                                                     *)

\* the uploads that have begun
Started == {p \in Uploaders : bld[p].pc # "idle"}

UploadsOf(ps) == [n \in 1..Len(ps) |-> [doc_id  |-> bld[ps[n]].doc_id,
                                       content |-> bld[ps[n]].content]]

\* the tables holding the documents of the uploads S, each of them whole
WholeDocuments(S) == BuiltFrom(UploadsOf(Ascending(S)), Cardinality(S))

Range(seq) == {seq[i] : i \in 1..Len(seq)}

\* the reply is the one the tables w give, up to the order of its lists
ReplyFrom(reply, w) ==
    IF reply.op = "search"
    THEN Range(reply.results) = Range(search_documents(reply.query, w.index, w.store))
    ELSE /\ reply.stats.total_documents = stats(w.index, w.store).total_documents
         /\ reply.stats.total_unique_words = stats(w.index, w.store).total_unique_words
         /\ Range(reply.stats.documents) = Range(stats(w.index, w.store).documents)

(* C4: a search or stats request served while uploads run never shows a    *)
(* partially indexed document: its reply is the reply of tables that hold  *)
(* each document either not at all or with all its occurrences and its     *)
(* metadata record.                                                        *)
C4_NoPartialVisibility ==
    [][((\E query \in ConcQueries : Search(query)) \/ Stats) =>
           \E S \in SUBSET Started : ReplyFrom(response', WholeDocuments(S))]_vars

(* C5: in every reachable state, whatever the interleaving of uploads,     *)
(* searches, stats and resets, every occurrence in the inverted index has  *)
(* a doc_id with a metadata record in document_store.                      *)
C5_ReferentialIntegrity ==
    \A d \in IndexedDocs(inverted_index) : DictHas(document_store, d)

----------------------------------------------------------------------------
(* The stemmer                                                             *)

\* the word simple_stem was applied to for stems[i]
Stemmed(i) == IF i = 1 THEN word ELSE stems[i - 1]

(* C10: stemming is idempotent: the stem of a stem is that stem.           *)
C10_StemIdempotent ==
    Len(stems) >= 2 => stems[2] = stems[1]

(* C10, amended: one call strips at most one suffix of the list and leaves *)
(* more than 2 characters; a stem is stable under stemming when none of    *)
(* the listed suffixes ends it with more than 2 characters before it.      *)
C10_StemStripsOneSuffix ==
    \A i \in 1..Len(stems) :
        /\ \/ stems[i] = Stemmed(i)
           \/ /\ \E k \in 1..Len(suffixes) : Stemmed(i) = stems[i] \o suffixes[k]
              /\ Len(stems[i]) > 2
        /\ (i > 1 /\ \A k \in 1..Len(suffixes) :
                        ~(endswith(stems[i - 1], suffixes[k])
                          /\ Len(stems[i - 1]) > Len(suffixes[k]) + 2))
               => stems[i] = stems[i - 1]

\* a word whose stem is stemmed further: two suffixes come off in two calls
C10_Witness ==
    /\ Len(stems) >= 3
    /\ stems[1] # word
    /\ stems[2] # stems[1]
    /\ stems[3] = stems[2]

----------------------------------------------------------------------------
(* Occurrence coordinates                                                  *)

\* every place of the index: a term and a rank in that term's list
Places(idx) ==
    UNION {{t} \X (1..Len(idx[t])) : t \in DOMAIN idx}

\* two occurrences of one document on one line
SameLine(a, b) == a.doc_id = b.doc_id /\ a.line = b.line

(* C11: in every reachable state, after any sequence of index_document and *)
(* reset calls, a repeated index_document on a used doc_id included, no    *)
(* two occurrences of the index share doc_id, line and position, and the   *)
(* positions of one (doc_id, line) pair increase in the order met.         *)
C11_PositionUniqueness ==
    /\ \A x \in Places(inverted_index), y \in Places(inverted_index) :
           (x # y /\ SameLine(inverted_index[x[1]][x[2]], inverted_index[y[1]][y[2]]))
               => inverted_index[x[1]][x[2]].position # inverted_index[y[1]][y[2]].position
    /\ \A t \in DOMAIN inverted_index :
           \A i \in 1..Len(inverted_index[t]), j \in 1..Len(inverted_index[t]) :
               (i < j /\ SameLine(inverted_index[t][i], inverted_index[t][j]))
                   => inverted_index[t][i].position < inverted_index[t][j].position

----------------------------------------------------------------------------
(* One index_document call, seen from the index it leaves                  *)

\* the latest index_document call since the last reset
LastUpload == uploads[Len(uploads)]

\* the index that call started from
IndexBefore == BuiltFrom(uploads, Len(uploads) - 1).index

LenBefore(t) == IF t \in DOMAIN IndexBefore THEN Len(IndexBefore[t]) ELSE 0

\* the places of the occurrences the call appended
AppendedPlaces ==
    UNION {{t} \X ((LenBefore(t) + 1)..Len(inverted_index[t])) : t \in DOMAIN inverted_index}

OccAt(x) == inverted_index[x[1]][x[2]]

\* a line that is empty or all whitespace
Blank(line) == \A i \in 1..Len(line) : Char(line, i) \in WhitespaceSet

\* newline-separated lines of a text: one more than its newlines
LineCount(content) ==
    Cardinality({i \in 1..Len(content) : Char(content, i) = "\n"}) + 1

\* the occurrence at place x is word number position + 1 of line number
\* line of the content, counting every line, under that word's stem
RecordsWord(x, doc_id, lines) ==
    /\ OccAt(x).doc_id = doc_id
    /\ OccAt(x).line \in 1..Len(lines)
    /\ ~Blank(lines[OccAt(x).line])
    /\ OccAt(x).position \in 0..(Len(preprocess_text(lines[OccAt(x).line])) - 1)
    /\ simple_stem(preprocess_text(lines[OccAt(x).line])[OccAt(x).position + 1]) = x[1]

(* C12: an index_document call appends no occurrence for a line that is    *)
(* empty or all whitespace; the line number of an occurrence is the        *)
(* 1-based rank of its line among all lines of the content, blank ones     *)
(* counted; positions run from 0 on each line, one occurrence per kept     *)
(* word; the recorded line count is the number of newline-separated lines, *)
(* blank ones included, so the line numbers the call records lie between   *)
(* 1 and that count.                                                       *)
C12_BlankLines ==
    uploads # <<>> =>
        /\ DictHas(document_store, LastUpload.doc_id)
        /\ DictGet(document_store, LastUpload.doc_id).lines = LineCount(LastUpload.content)
        /\ Len(split_lines(LastUpload.content)) = LineCount(LastUpload.content)
        /\ \A x \in AppendedPlaces :
               /\ RecordsWord(x, LastUpload.doc_id, split_lines(LastUpload.content))
               /\ OccAt(x).line \in 1..DictGet(document_store, LastUpload.doc_id).lines
        /\ \A n \in 1..LineCount(LastUpload.content) :
               \A p \in 1..Len(preprocess_text(split_lines(LastUpload.content)[n])) :
                   Cardinality({x \in AppendedPlaces :
                                   OccAt(x).line = n /\ OccAt(x).position = p - 1}) = 1

\* a second call on a document with an all-whitespace second line: its
\* third line is recorded as line 3, position 0; nothing is on line 2
C12_Witness ==
    /\ Len(uploads) = 2
    /\ LastUpload.content = DocMixed
    /\ uploads[1].doc_id = "doc2"
    /\ LastUpload.doc_id = "doc1"
    /\ \E x \in AppendedPlaces :
           x[1] = "meeting" /\ OccAt(x).line = 3 /\ OccAt(x).position = 0
    /\ \A x \in AppendedPlaces : OccAt(x).line # 2
    /\ DictGet(document_store, "doc1").lines = 3

----------------------------------------------------------------------------
(* The frame of search                                                     *)

\* total_unique_words as stats would report it
UniqueWords(idx, store) == stats(idx, store).total_unique_words

(* C13: a search, matching or not, with zero, one or several terms, leaves *)
(* the inverted index and the metadata table as they were; a query term    *)
(* absent from the index gets no key, so every key of the index has at     *)
(* least one occurrence and stats reports the same distinct-term count     *)
(* before and after the search.                                            *)
C13_SearchReadOnly ==
    [][/\ \A t \in DOMAIN inverted_index' : inverted_index'[t] # <<>>
       /\ (\E query \in Queries : Search(query)) =>
              /\ inverted_index' = inverted_index
              /\ document_store' = document_store
              /\ UniqueWords(inverted_index', document_store')
                     = UniqueWords(inverted_index, document_store)]_vars

\* a two-term search over a non-empty index, one term indexed, the other
\* not: no result, and still no key for the absent term
C13_Witness ==
    /\ IsSearch
    /\ response.query = "money xyz"
    /\ response.results = <<>>
    /\ DistinctTerms(response.query) = {"money", "xyz"}
    /\ "money" \in DOMAIN inverted_index
    /\ "xyz" \notin DOMAIN inverted_index

====
